---- MODULE Spec2Model ----
(***************************************************************************)
(* Model of the two-stage address cleaner                                  *)
(*   src/czyszczenieadresu1.py  (stage 1: historical voivodeships)         *)
(*   src/czyszczenieadresu2.py  (stage 2: completion from TERYT / courts)  *)
(*                                                                         *)
(* Text is modelled character by character.  A text is a sequence of       *)
(* characters; a character is a one-letter string, or, for a Polish        *)
(* letter, its base letter followed by "^":                                *)
(*    a^ = a-ogonek   c^ = c-acute   e^ = e-ogonek   l^ = l-stroke         *)
(*    n^ = n-acute    o^ = o-acute   s^ = s-acute    x^ = z-acute          *)
(*    z^ = z-dot      (and the same in upper case: A^, C^, ... X^, Z^)     *)
(* U("pl^ockie") is the text of the Polish word plockie written with       *)
(* l-stroke.  The combining marks that Unicode decomposition produces are  *)
(* the characters "+ogonek", "+acute" and "+dot".                          *)
(***************************************************************************)
EXTENDS Integers, Sequences, FiniteSets, TLC

VARIABLES
  \* ---- stage 1: replace_historical_voivodeship ----
  h_val,          \* the cell handed to replace_historical_voivodeship
  h_res,          \* what it returned
  h_pc,           \* "call" | "done" | "idle"
  \* ---- stage 2: guess_miejscowosc_from_hint, called on its own ----
  g_hint,         \* the hint text
  g_canon,        \* miejsc_key_to_canon: key -> canonical name (its DOMAIN is miejsc_keys_set)
  g_res,          \* the returned canonical name, or None
  g_pc,           \* "call" | "done" | "idle"
  \* ---- stage 2: main ----
  teryt,               \* the rows of teryt.csv as read (cells: a text or NaN)
  obs,                 \* the rows of obszar_sadow.xlsx as read
  miejsc_keys_set,     \* build_teryt_index: the set of locality keys
  miejsc_key_to_canon, \* build_teryt_index: key -> first spelling seen
  miejsc_to_rows,      \* build_teryt_index: key -> <<woj, powiat, gmina>> rows, in file order
  court_to_woj,        \* build_obszar_index: court code -> its one voivodeship
  court_to_miejsc,     \* build_obszar_index: court code -> key -> <<woj, powiat, gmina, miejsc>>
  df,                  \* the report row in the data frame: column -> cell
  row,                 \* row = df.iloc[i]: the copy of the row taken before the fills
  woj, powiat, gmina, miejsc, \* the loop's local values of the four fields
  court_code,          \* the court code taken from "Nr KW", or None
  hint,                \* build_hint_text(row)
  rerun,               \* TRUE once the saved report has been loaded again
  pc                   \* "load" | "row" | "step1" | "step2" | "step3" | "step4" | "done" | "idle"

histVars == <<h_val, h_res, h_pc>>
guessVars == <<g_hint, g_canon, g_res, g_pc>>
refVars == <<teryt, obs>>
terytIndexVars == <<miejsc_keys_set, miejsc_key_to_canon, miejsc_to_rows>>
obszarIndexVars == <<court_to_woj, court_to_miejsc>>
rowVars == <<df, row, woj, powiat, gmina, miejsc, court_code, hint, rerun>>
mainVars == <<refVars, terytIndexVars, obszarIndexVars, rowVars, pc>>

-----------------------------------------------------------------------------
(* Characters and texts *)

LowerAZ == "abcdefghijklmnopqrstuvwxyz"
UpperAZ == "ABCDEFGHIJKLMNOPQRSTUVWXYZ"
\* The base letters of the Polish letters (x stands for the z of z-acute).
PolishBases == "acelnosxz"
PolishUpper == "ACELNOSXZ"

\* U(s): the text written by the ASCII string s, "^" marking a Polish letter.
RECURSIVE UFrom(_, _)
UFrom(s, i) ==
  IF i > Len(s) THEN <<>>
  ELSE IF i < Len(s) /\ SubSeq(s, i + 1, i + 1) = "^"
       THEN <<SubSeq(s, i, i + 1)>> \o UFrom(s, i + 2)
       ELSE <<SubSeq(s, i, i)>> \o UFrom(s, i + 1)

U(s) == UFrom(s, 1)

\* Python's None, and pandas' NaN (an empty spreadsheet cell): neither is a text.
None == <<"<None>">>
NaN  == <<"<NaN>">>

IsText(x) == x # None /\ x # NaN

Base(c) == SubSeq(c, 1, 1)
IsPolish(c) == Len(c) = 2 /\ SubSeq(c, 2, 2) = "^"
IsCombining(c) == c \in {"+ogonek", "+acute", "+dot"}

\* The (upper, lower) pairs of the letters of the alphabet.
CasePairs ==
  {<<SubSeq(UpperAZ, i, i), SubSeq(LowerAZ, i, i)>> : i \in 1..Len(UpperAZ)}
  \cup {<<SubSeq(PolishUpper, i, i) \o "^", SubSeq(PolishBases, i, i) \o "^">> :
          i \in 1..Len(PolishUpper)}

ToLower == [c \in {p[1] : p \in CasePairs} |-> (CHOOSE p \in CasePairs : p[1] = c)[2]]
ToUpper == [c \in {p[2] : p \in CasePairs} |-> (CHOOSE p \in CasePairs : p[2] = c)[1]]

\* str.lower() / str.upper() of one character
LowerChar(c) == IF c \in DOMAIN ToLower THEN ToLower[c] ELSE c
UpperChar(c) == IF c \in DOMAIN ToUpper THEN ToUpper[c] ELSE c

lower(s) == [i \in 1..Len(s) |-> LowerChar(s[i])]
upper(s) == [i \in 1..Len(s) |-> UpperChar(s[i])]

\* unicodedata.normalize("NFKD", c) of one character: the letters with ogonek,
\* acute or dot decompose into base letter + combining mark; l-stroke has no
\* decomposition.
DecomposeChar(c) ==
  IF ~IsPolish(c) THEN <<c>>
  ELSE LET b == Base(c)
       IN  CASE b \in {"l", "L"} -> <<c>>
             [] b \in {"a", "e", "A", "E"} -> <<b, "+ogonek">>
             [] b = "z" -> <<"z", "+dot">>
             [] b = "Z" -> <<"Z", "+dot">>
             [] b = "x" -> <<"z", "+acute">>
             [] b = "X" -> <<"Z", "+acute">>
             [] OTHER -> <<b, "+acute">>

RECURSIVE NFKD(_)
NFKD(s) == IF s = <<>> THEN <<>> ELSE DecomposeChar(Head(s)) \o NFKD(Tail(s))

\* "".join(c for c in unicodedata.normalize("NFKD", s) if not combining(c))
NotCombining(c) == ~IsCombining(c)
strip_marks(s) == SelectSeq(NFKD(s), NotCombining)

IsSpace(c) == c \in {" ", "\t"}

\* str.strip()
RECURSIVE lstrip(_)
lstrip(s) == IF s # <<>> /\ IsSpace(Head(s)) THEN lstrip(Tail(s)) ELSE s

RECURSIVE rstrip(_)
rstrip(s) ==
  IF s # <<>> /\ IsSpace(s[Len(s)]) THEN rstrip(SubSeq(s, 1, Len(s) - 1)) ELSE s

strip(s) == rstrip(lstrip(s))

\* re.sub(r"\s+", " ", s): every maximal run of whitespace becomes one space
RECURSIVE collapse_ws(_)
collapse_ws(s) ==
  IF s = <<>> THEN <<>>
  ELSE IF IsSpace(Head(s)) THEN <<" ">> \o collapse_ws(lstrip(s))
       ELSE <<Head(s)>> \o collapse_ws(Tail(s))

\* Whether the text s has the text p at position i.
HasAt(s, p, i) == i + Len(p) - 1 <= Len(s) /\ SubSeq(s, i, i + Len(p) - 1) = p

MISSING_TOKENS ==
  { U("---"), U("--"), <<"--em">>, U("-"), U("brak"), U("brak danych"),
    U("nan"), U("none"), <<>> }

\* str(x) of a cell: NaN prints as "nan"
str(x) == IF x = NaN THEN U("nan") ELSE IF x = None THEN U("None") ELSE x

norm_missing(x) ==
  IF x = None THEN None
  ELSE LET s == strip(str(x))
       IN  IF lower(s) \in MISSING_TOKENS THEN None ELSE s

-----------------------------------------------------------------------------
(* Stage 1: the historical voivodeship map and its resolver *)

HistoricalBase ==
  << \* DOLNOSLASKIE
     <<U("wroclawskie"), U("DOLNOS^LA^SKIE")>>,
     <<U("jeleniogorskie"), U("DOLNOS^LA^SKIE")>>,
     <<U("walbrzyskie"), U("DOLNOS^LA^SKIE")>>,
     <<U("legnickie"), U("DOLNOS^LA^SKIE")>>,
     \* KUJAWSKO-POMORSKIE
     <<U("bydgoskie"), U("KUJAWSKO-POMORSKIE")>>,
     <<U("torunskie"), U("KUJAWSKO-POMORSKIE")>>,
     <<U("wloclawskie"), U("KUJAWSKO-POMORSKIE")>>,
     \* LUBELSKIE
     <<U("lubelskie"), U("LUBELSKIE")>>,
     <<U("bialskopodlaskie"), U("LUBELSKIE")>>,
     <<U("chelmskie"), U("LUBELSKIE")>>,
     <<U("zamojskie"), U("LUBELSKIE")>>,
     \* LUBUSKIE
     <<U("zielonogorskie"), U("LUBUSKIE")>>,
     <<U("gorzowskie"), U("LUBUSKIE")>>,
     \* LODZKIE
     <<U("lodzkie"), U("L^O^DZKIE")>>,
     <<U("piotrkowskie"), U("L^O^DZKIE")>>,
     <<U("sieradzkie"), U("L^O^DZKIE")>>,
     <<U("skierniewickie"), U("L^O^DZKIE")>>,
     \* MALOPOLSKIE
     <<U("krakowskie"), U("MAL^OPOLSKIE")>>,
     <<U("tarnowskie"), U("MAL^OPOLSKIE")>>,
     <<U("nowosadeckie"), U("MAL^OPOLSKIE")>>,
     \* MAZOWIECKIE
     <<U("warszawskie"), U("MAZOWIECKIE")>>,
     <<U("plockie"), U("MAZOWIECKIE")>>,
     <<U("ciechanowskie"), U("MAZOWIECKIE")>>,
     <<U("ostroleckie"), U("MAZOWIECKIE")>>,
     <<U("siedleckie"), U("MAZOWIECKIE")>>,
     <<U("radomskie"), U("MAZOWIECKIE")>>,
     \* OPOLSKIE
     <<U("opolskie"), U("OPOLSKIE")>>,
     \* PODKARPACKIE
     <<U("rzeszowskie"), U("PODKARPACKIE")>>,
     <<U("przemyskie"), U("PODKARPACKIE")>>,
     <<U("krosnienskie"), U("PODKARPACKIE")>>,
     <<U("tarnobrzeskie"), U("PODKARPACKIE")>>,
     \* PODLASKIE
     <<U("bialostockie"), U("PODLASKIE")>>,
     <<U("lomzynskie"), U("PODLASKIE")>>,
     <<U("suwalskie"), U("PODLASKIE")>>,
     \* POMORSKIE
     <<U("gdanskie"), U("POMORSKIE")>>,
     <<U("slupskie"), U("POMORSKIE")>>,
     \* SLASKIE
     <<U("katowickie"), U("S^LA^SKIE")>>,
     <<U("bielskie"), U("S^LA^SKIE")>>,
     <<U("czestochowskie"), U("S^LA^SKIE")>>,
     \* SWIETOKRZYSKIE
     <<U("kieleckie"), U("S^WIE^TOKRZYSKIE")>>,
     \* WARMINSKO-MAZURSKIE
     <<U("olsztynskie"), U("WARMIN^SKO-MAZURSKIE")>>,
     <<U("elblaskie"), U("WARMIN^SKO-MAZURSKIE")>>,
     \* WIELKOPOLSKIE
     <<U("poznanskie"), U("WIELKOPOLSKIE")>>,
     <<U("kaliskie"), U("WIELKOPOLSKIE")>>,
     <<U("koninskie"), U("WIELKOPOLSKIE")>>,
     <<U("leszczynskie"), U("WIELKOPOLSKIE")>>,
     <<U("pilskie"), U("WIELKOPOLSKIE")>>,
     \* ZACHODNIOPOMORSKIE
     <<U("szczecinskie"), U("ZACHODNIOPOMORSKIE")>>,
     <<U("koszalinskie"), U("ZACHODNIOPOMORSKIE")>> >>

\* The base entries plus the "wojewodztwo X" / "X wojewodztwo" variants, as the
\* set of (key, value) pairs of the dictionary.
HISTORICAL_VOIVODESHIP_MAP ==
  LET base == {HistoricalBase[i] : i \in 1..Len(HistoricalBase)}
  IN  base
      \cup {<<U("wojewodztwo ") \o p[1], p[2]>> : p \in base}
      \cup {<<p[1] \o U(" wojewodztwo"), p[2]>> : p \in base}

HistKeys == {p[1] : p \in HISTORICAL_VOIVODESHIP_MAP}
HistGet(k) == (CHOOSE p \in HISTORICAL_VOIVODESHIP_MAP : p[1] = k)[2]

\* re.sub(r"[^a-z\s]", " ", s)
AZ == {SubSeq(LowerAZ, i, i) : i \in 1..Len(LowerAZ)}
IsAZ(c) == c \in AZ
letters_only(s) == [i \in 1..Len(s) |-> IF IsAZ(s[i]) \/ IsSpace(s[i]) THEN s[i] ELSE " "]

\* stage 1 norm_key; None for a result that is empty
norm_key_s1(s) ==
  IF s = None \/ s = <<>> THEN None
  ELSE LET k == strip(collapse_ws(letters_only(strip_marks(lower(strip(str(s)))))))
       IN  IF k = <<>> THEN None ELSE k

\* str.replace(pat, ""): every non-overlapping occurrence, left to right
RECURSIVE remove_all(_, _)
remove_all(s, pat) ==
  IF s = <<>> THEN <<>>
  ELSE IF HasAt(s, pat, 1) THEN remove_all(SubSeq(s, Len(pat) + 1, Len(s)), pat)
       ELSE <<Head(s)>> \o remove_all(Tail(s), pat)

replace_historical_voivodeship(val0) ==
  LET val == norm_missing(val0)
  IN  IF val = None THEN None
      ELSE LET key == norm_key_s1(val)
           IN  IF key = None THEN None
               ELSE IF key \in HistKeys THEN HistGet(key)
               ELSE LET key2 == strip(remove_all(key, U("wojewodztwo ")))
                    IN  IF key2 \in HistKeys THEN HistGet(key2)
                        ELSE upper(val)

-----------------------------------------------------------------------------
(* The 49 historical names in Polish spelling, each with the modern name the
   source documents for it (the group headers of the map). *)

HistoricalNames ==
  << <<U("wrocl^awskie"), U("DOLNOS^LA^SKIE")>>,
     <<U("jeleniogo^rskie"), U("DOLNOS^LA^SKIE")>>,
     <<U("wal^brzyskie"), U("DOLNOS^LA^SKIE")>>,
     <<U("legnickie"), U("DOLNOS^LA^SKIE")>>,
     <<U("bydgoskie"), U("KUJAWSKO-POMORSKIE")>>,
     <<U("torun^skie"), U("KUJAWSKO-POMORSKIE")>>,
     <<U("wl^ocl^awskie"), U("KUJAWSKO-POMORSKIE")>>,
     <<U("lubelskie"), U("LUBELSKIE")>>,
     <<U("bialskopodlaskie"), U("LUBELSKIE")>>,
     <<U("chel^mskie"), U("LUBELSKIE")>>,
     <<U("zamojskie"), U("LUBELSKIE")>>,
     <<U("zielonogo^rskie"), U("LUBUSKIE")>>,
     <<U("gorzowskie"), U("LUBUSKIE")>>,
     <<U("l^o^dzkie"), U("L^O^DZKIE")>>,
     <<U("piotrkowskie"), U("L^O^DZKIE")>>,
     <<U("sieradzkie"), U("L^O^DZKIE")>>,
     <<U("skierniewickie"), U("L^O^DZKIE")>>,
     <<U("krakowskie"), U("MAL^OPOLSKIE")>>,
     <<U("tarnowskie"), U("MAL^OPOLSKIE")>>,
     <<U("nowosa^deckie"), U("MAL^OPOLSKIE")>>,
     <<U("warszawskie"), U("MAZOWIECKIE")>>,
     <<U("pl^ockie"), U("MAZOWIECKIE")>>,
     <<U("ciechanowskie"), U("MAZOWIECKIE")>>,
     <<U("ostrol^e^ckie"), U("MAZOWIECKIE")>>,
     <<U("siedleckie"), U("MAZOWIECKIE")>>,
     <<U("radomskie"), U("MAZOWIECKIE")>>,
     <<U("opolskie"), U("OPOLSKIE")>>,
     <<U("rzeszowskie"), U("PODKARPACKIE")>>,
     <<U("przemyskie"), U("PODKARPACKIE")>>,
     <<U("kros^nien^skie"), U("PODKARPACKIE")>>,
     <<U("tarnobrzeskie"), U("PODKARPACKIE")>>,
     <<U("bial^ostockie"), U("PODLASKIE")>>,
     <<U("l^omz^yn^skie"), U("PODLASKIE")>>,
     <<U("suwalskie"), U("PODLASKIE")>>,
     <<U("gdan^skie"), U("POMORSKIE")>>,
     <<U("sl^upskie"), U("POMORSKIE")>>,
     <<U("katowickie"), U("S^LA^SKIE")>>,
     <<U("bielskie"), U("S^LA^SKIE")>>,
     <<U("cze^stochowskie"), U("S^LA^SKIE")>>,
     <<U("kieleckie"), U("S^WIE^TOKRZYSKIE")>>,
     <<U("olsztyn^skie"), U("WARMIN^SKO-MAZURSKIE")>>,
     <<U("elbla^skie"), U("WARMIN^SKO-MAZURSKIE")>>,
     <<U("poznan^skie"), U("WIELKOPOLSKIE")>>,
     <<U("kaliskie"), U("WIELKOPOLSKIE")>>,
     <<U("konin^skie"), U("WIELKOPOLSKIE")>>,
     <<U("leszczyn^skie"), U("WIELKOPOLSKIE")>>,
     <<U("pilskie"), U("WIELKOPOLSKIE")>>,
     <<U("szczecin^skie"), U("ZACHODNIOPOMORSKIE")>>,
     <<U("koszalin^skie"), U("ZACHODNIOPOMORSKIE")>> >>

\* A name with only its first letter in upper case.
Capitalized(s) == IF s = <<>> THEN s ELSE <<UpperChar(Head(s))>> \o Tail(s)

\* The cells stage 1 is tried on: every historical name in lower case, in upper
\* case and capitalized, and a few cells that are no historical name.
HistInputs ==
  UNION {{HistoricalNames[i][1], upper(HistoricalNames[i][1]),
          Capitalized(HistoricalNames[i][1])} : i \in 1..Len(HistoricalNames)}
  \cup {U("WOJEWO^DZTWO PL^OCKIE"), U("wojewo^dztwo krakowskie"),
        U("Mazowieckie"), U("pomorskie"), U(" --- "), U("Brak danych"), NaN, None}

\* The modern name documented for an input that is a historical name in some
\* letter case.
IsHistoricalName(v) ==
  \E i \in 1..Len(HistoricalNames) : lower(v) = HistoricalNames[i][1]
DocumentedModern(v) ==
  HistoricalNames[CHOOSE i \in 1..Len(HistoricalNames) : lower(v) = HistoricalNames[i][1]][2]

HistInit ==
  /\ h_val \in HistInputs
  /\ h_res = None
  /\ h_pc = "call"

HistIdle ==
  /\ h_val = None
  /\ h_res = None
  /\ h_pc = "idle"

\* df["Wojewodztwo"].apply(replace_historical_voivodeship), one cell
ReplaceHistorical ==
  /\ h_pc = "call"
  /\ h_res' = replace_historical_voivodeship(h_val)
  /\ h_pc' = "done"
  /\ UNCHANGED <<h_val, guessVars, mainVars>>

-----------------------------------------------------------------------------
(* Stage 2: normalisation *)

\* stage 2 norm_key: str(s or ""), strip, lower, no diacritics, single spaces
norm_key(s) ==
  LET t == IF s = None \/ s = <<>> THEN <<>> ELSE str(s)
  IN  strip(collapse_ws(strip_marks(lower(strip(t)))))

\* s[:1].upper() + s[1:] of the stripped text
title_pl(s) ==
  LET t == strip(IF s = None \/ s = <<>> THEN <<>> ELSE str(s))
  IN  IF t = <<>> THEN <<>> ELSE <<UpperChar(Head(t))>> \o Tail(t)

Digits == "0123456789"
IsUpperAZ(c) == c \in {SubSeq(UpperAZ, i, i) : i \in 1..Len(UpperAZ)}
IsDigit(c) == c \in {SubSeq(Digits, i, i) : i \in 1..Len(Digits)}

\* KW_COURT_RE = ^\s*([A-Z]{2}\d[A-Z])\s*/  on the stripped, upper-cased number
extract_court_code(nr_kw) ==
  IF nr_kw = None \/ nr_kw = <<>> THEN None
  ELSE LET s == upper(strip(str(nr_kw)))
           rest == lstrip(SubSeq(s, 5, Len(s)))
       IN  IF /\ Len(s) >= 5
              /\ IsUpperAZ(s[1]) /\ IsUpperAZ(s[2]) /\ IsDigit(s[3]) /\ IsUpperAZ(s[4])
              /\ rest # <<>> /\ Head(rest) = "/"
           THEN SubSeq(s, 1, 4)
           ELSE None

-----------------------------------------------------------------------------
(* Stage 2: the locality guess *)

\* SPLIT_RE = [|,;]+
IsDelim(c) == c \in {"|", ",", ";"}

RECURSIVE skip_delims(_)
skip_delims(s) == IF s # <<>> /\ IsDelim(Head(s)) THEN skip_delims(Tail(s)) ELSE s

\* SPLIT_RE.split(s): the pieces between the runs of delimiters (cur: the piece so far)
RECURSIVE split_from(_, _)
split_from(s, cur) ==
  IF s = <<>> THEN <<cur>>
  ELSE IF IsDelim(Head(s)) THEN <<cur>> \o split_from(skip_delims(s), <<>>)
       ELSE split_from(Tail(s), Append(cur, Head(s)))

SPLIT_RE_split(s) == split_from(s, <<>>)

\* [norm_key(s) for s in SPLIT_RE.split(hint) if norm_key(s)]
NonEmpty(s) == s # <<>>
hint_segments(txt) ==
  LET pieces == SPLIT_RE_split(txt)
  IN  SelectSeq([i \in 1..Len(pieces) |-> norm_key(pieces[i])], NonEmpty)

PREFIXES ==
  <<U("ul"), U("ulica"), U("al"), U("aleja"), U("os"), U("osiedle"), U("pl"), U("plac")>>

\* What is left of seg after a match of  ^P\.?\s+  for the prefix P; None if no match.
after_prefix(seg, P) ==
  IF ~HasAt(seg, P, 1) THEN None
  ELSE LET a == SubSeq(seg, Len(P) + 1, Len(seg))
           b == IF a # <<>> /\ Head(a) = "." THEN Tail(a) ELSE a
       IN  IF b # <<>> /\ IsSpace(Head(b)) THEN lstrip(b) ELSE None

\* re.sub(r"^(ul|ulica|al|aleja|os|osiedle|pl|plac)\.?\s+", "", seg).strip():
\* the alternatives are tried in order (i: the next one to try)
RECURSIVE strip_prefix_from(_, _)
strip_prefix_from(seg, i) ==
  IF i > Len(PREFIXES) THEN strip(seg)
  ELSE IF after_prefix(seg, PREFIXES[i]) # None THEN strip(after_prefix(seg, PREFIXES[i]))
       ELSE strip_prefix_from(seg, i + 1)

strip_prefix(seg) == strip_prefix_from(strip(seg), 1)

\* (a scan of the segments in text order, first to last)
RECURSIVE scan_segments_forward(_, _, _)
scan_segments_forward(segs, i, keys) ==
  LET j == Len(segs) - i + 1
  IN  IF i = 0 THEN None
      ELSE IF strip_prefix(segs[j]) \in keys THEN strip_prefix(segs[j])
           ELSE scan_segments_forward(segs, i - 1, keys)

\* for seg in reversed(segs): the key of the first segment found in keys, else None
RECURSIVE scan_segments(_, _, _)
scan_segments(segs, i, keys) ==
  IF i = 0 THEN None
  ELSE IF strip_prefix(segs[i]) \in keys THEN strip_prefix(segs[i])
       ELSE scan_segments(segs, i - 1, keys)

\* [w for w in re.split(r"\s+", h) if w]  (cur: the word so far)
RECURSIVE words_from(_, _)
words_from(s, cur) ==
  IF s = <<>> THEN (IF cur = <<>> THEN <<>> ELSE <<cur>>)
  ELSE IF IsSpace(Head(s))
       THEN (IF cur = <<>> THEN <<>> ELSE <<cur>>) \o words_from(Tail(s), <<>>)
       ELSE words_from(Tail(s), Append(cur, Head(s)))

split_words(h) == words_from(h, <<>>)

\* " ".join(ws)
RECURSIVE join_words(_)
join_words(ws) ==
  IF ws = <<>> THEN <<>>
  ELSE IF Len(ws) = 1 THEN ws[1]
       ELSE ws[1] \o <<" ">> \o join_words(Tail(ws))

\* for n in (4, 3, 2, 1): the longest phrases first
MaxNgram == 4

\* (n-gram loops that try the shortest phrases first: n = 1, 2, ..., up to n)
RECURSIVE scan_ngrams_up(_, _, _, _, _)
scan_ngrams_up(words, m, n, i, keys) ==
  IF m > n THEN None
  ELSE IF Len(words) < m \/ i > Len(words) - m + 1
       THEN scan_ngrams_up(words, m + 1, n, 1, keys)
       ELSE LET phrase == strip(join_words(SubSeq(words, i, i + m - 1)))
            IN  IF phrase \in keys THEN phrase
                ELSE scan_ngrams_up(words, m, n, i + 1, keys)

scan_ngrams_shortest_first(words, n, i, keys) == scan_ngrams_up(words, 1, n, i, keys)

\* The n-gram loops from (n, i) on: the first phrase found in keys, else None.
RECURSIVE scan_ngrams(_, _, _, _)
scan_ngrams(words, n, i, keys) ==
  IF n = 0 THEN None
  ELSE IF Len(words) < n \/ i > Len(words) - n + 1
       THEN scan_ngrams(words, n - 1, 1, keys)
       ELSE LET phrase == strip(join_words(SubSeq(words, i, i + n - 1)))
            IN  IF phrase \in keys THEN phrase
                ELSE scan_ngrams(words, n, i + 1, keys)

guess_miejscowosc_from_hint(txt, keys, canon) ==
  LET h == norm_key(txt)
  IN  IF h = <<>> THEN None
      ELSE LET segs == hint_segments(txt)
               seg == scan_segments(segs, Len(segs), keys)
           IN  IF seg # None THEN canon[seg]
               ELSE LET phrase == scan_ngrams(split_words(h), MaxNgram, 1, keys)
                    IN  IF phrase # None THEN canon[phrase] ELSE None

-----------------------------------------------------------------------------
(* The guess called on its own: hints put together from address pieces, against
   a few candidate tables. *)

MaxPieces == 3

HintPieces ==
  { U("Warszawa "), U("Nowy "), U("SA^CZ "), U("Nowy SA^CZ "), U("ul. "), U("Kwiatowa "),
    U("| "), U(", ") }

RECURSIVE HintsOfLen(_)
HintsOfLen(n) ==
  IF n = 0 THEN {<<>>}
  ELSE {h \o p : h \in HintsOfLen(n - 1), p \in HintPieces}

Hints == UNION {HintsOfLen(n) : n \in 0..MaxPieces}

\* Candidate tables: canonical names as the reference file spells them.
CanonOf(names) ==
  [k \in {norm_key(c) : c \in names} |-> CHOOSE c \in names : norm_key(c) = k]

CandidateNames ==
  { {},
    {U("WARSZAWA")},
    {U("Sa^cz"), U("Nowy Sa^cz")},
    {U("Nowy Sa^cz")},
    {U("Nowy"), U("Sa^cz")},
    {U("WARSZAWA"), U("Sa^cz"), U("Nowy Sa^cz")},
    {U("Kwiatowa"), U("WARSZAWA")},
    {U("Nowy Sa^cz Kwiatowa"), U("Nowy Sa^cz"), U("Kwiatowa")} }

GuessInit ==
  /\ g_hint \in Hints
  /\ g_canon \in {CanonOf(names) : names \in CandidateNames}
  /\ g_res = None
  /\ g_pc = "call"

GuessIdle ==
  /\ g_hint = <<>>
  /\ g_canon = CanonOf({})
  /\ g_res = None
  /\ g_pc = "idle"

\* guess = guess_miejscowosc_from_hint(hint, miejsc_keys_set, miejsc_key_to_canon)
Guess ==
  /\ g_pc = "call"
  /\ g_res' = guess_miejscowosc_from_hint(g_hint, DOMAIN g_canon, g_canon)
  /\ g_pc' = "done"
  /\ UNCHANGED <<g_hint, g_canon, histVars, mainVars>>

-----------------------------------------------------------------------------
(* Stage 2: the reference indexes *)

\* Python dictionaries, as functions
EmptyDict == <<>>
Put(f, k, v) == [x \in (DOMAIN f) \cup {k} |-> IF x = k THEN v ELSE f[x]]
SetDefault(f, k, v) == IF k \in DOMAIN f THEN f ELSE Put(f, k, v)

\* load_teryt: astype(str), then  x.strip() if x and x != "nan" else ""
load_cell(x) ==
  LET s == str(x)
  IN  IF s # <<>> /\ s # U("nan") THEN strip(s) ELSE <<>>

load_teryt(rows) ==
  [i \in 1..Len(rows) |->
     [Wojewodztwo |-> load_cell(rows[i].Wojewodztwo), Powiat |-> load_cell(rows[i].Powiat),
      Gmina |-> load_cell(rows[i].Gmina), Miejscowosc |-> load_cell(rows[i].Miejscowosc)]]

\* (an index in which a later row of a key replaces the spelling kept for it)
RECURSIVE teryt_index_last_wins(_, _, _, _)
teryt_index_last_wins(rows, i, canon, torows) ==
  IF i > Len(rows) THEN <<DOMAIN canon, canon, torows>>
  ELSE LET m == strip(rows[i].Miejscowosc)
           k == norm_key(m)
           tup == <<strip(rows[i].Wojewodztwo), strip(rows[i].Powiat), strip(rows[i].Gmina)>>
       IN  IF m = <<>> \/ k = <<>> THEN teryt_index_last_wins(rows, i + 1, canon, torows)
           ELSE teryt_index_last_wins(rows, i + 1, Put(canon, k, m),
                  Put(torows, k, IF k \in DOMAIN torows THEN Append(torows[k], tup) ELSE <<tup>>))

\* The loop of build_teryt_index from row i on, with the two dictionaries so far;
\* the result is <<miejsc_keys_set, miejsc_key_to_canon, miejsc_to_rows>>.
RECURSIVE teryt_index_from(_, _, _, _)
teryt_index_from(rows, i, canon, torows) ==
  IF i > Len(rows) THEN <<DOMAIN canon, canon, torows>>
  ELSE LET m == strip(rows[i].Miejscowosc)
           k == norm_key(m)
           tup == <<strip(rows[i].Wojewodztwo), strip(rows[i].Powiat), strip(rows[i].Gmina)>>
       IN  IF m = <<>> \/ k = <<>> THEN teryt_index_from(rows, i + 1, canon, torows)
           ELSE teryt_index_from(rows, i + 1, SetDefault(canon, k, m),
                  Put(torows, k, IF k \in DOMAIN torows THEN Append(torows[k], tup) ELSE <<tup>>))

build_teryt_index(rows) == teryt_index_from(rows, 1, EmptyDict, EmptyDict)

-----------------------------------------------------------------------------
(* build_teryt_index on its own: reference files of up to MaxRows rows *)

MaxRows == 3

TRow(w, p, g, m) == [Wojewodztwo |-> w, Powiat |-> p, Gmina |-> g, Miejscowosc |-> m]

TerytPool ==
  { TRow(U("MAZOWIECKIE"), U("pl^ocki"), U("Bielsk"), U("L^A^KA")),
    TRow(U("DOLNOS^LA^SKIE"), NaN, U("Wol^o^w"), U(" L^a^ka")),
    TRow(U("MAL^OPOLSKIE"), U("Nowy Sa^cz"), U("Nowy Sa^cz"), U("NOWY SA^CZ")) }

IndexPool ==
  TerytPool \cup
  { TRow(U("S^LA^SKIE"), U("bielski"), U("Buczkowice"), NaN),
    TRow(U("L^O^DZKIE"), U("zgierski"), U("Zgierz"), U("l^a^ka")) }

\* The sequences of at most n rows of a pool
RECURSIVE SeqsUpTo(_, _)
SeqsUpTo(pool, n) ==
  IF n = 0 THEN {<<>>}
  ELSE LET shorter == SeqsUpTo(pool, n - 1)
       IN  shorter \cup {Append(s, r) : s \in {x \in shorter : Len(x) = n - 1}, r \in pool}

\* The sequences of at most n rows of a pool, no row twice
SeqsOfDistinct(pool, n) ==
  {s \in SeqsUpTo(pool, n) : \A i, j \in 1..Len(s) : i # j => s[i] # s[j]}

NoRow == [c \in {} |-> None]

\* The values of the variables of main that a run of build_teryt_index alone leaves alone
RowIdle ==
  /\ df = NoRow /\ row = NoRow
  /\ woj = None /\ powiat = None /\ gmina = None /\ miejsc = None
  /\ court_code = None /\ hint = <<>> /\ rerun = FALSE

IndexesEmpty ==
  /\ miejsc_keys_set = {} /\ miejsc_key_to_canon = EmptyDict /\ miejsc_to_rows = EmptyDict
  /\ court_to_woj = EmptyDict /\ court_to_miejsc = EmptyDict

IndexInit ==
  /\ teryt \in SeqsUpTo(IndexPool, MaxRows)
  /\ obs = <<>>
  /\ IndexesEmpty
  /\ RowIdle
  /\ pc = "build"

MainIdle ==
  /\ teryt = <<>> /\ obs = <<>>
  /\ IndexesEmpty
  /\ RowIdle
  /\ pc = "idle"

\* miejsc_keys_set, miejsc_key_to_canon, miejsc_to_rows = build_teryt_index(load_teryt(...))
BuildTerytIndex ==
  /\ pc = "build"
  /\ LET ix == build_teryt_index(load_teryt(teryt))
     IN  /\ miejsc_keys_set' = ix[1]
         /\ miejsc_key_to_canon' = ix[2]
         /\ miejsc_to_rows' = ix[3]
  /\ pc' = "built"
  /\ UNCHANGED <<refVars, obszarIndexVars, rowVars, histVars, guessVars>>

-----------------------------------------------------------------------------
(* Stage 2: the court index *)

\* The characters in the order of their code points (how pandas sorts the group keys)
CodeOrder ==
  U("\t ,-./0123456789;ABCDEFGHIJKLMNOPQRSTUVWXYZabcdefghijklmnopqrstuvwxyz|") \o
  <<"O^", "o^", "A^", "a^", "C^", "c^", "E^", "e^", "L^", "l^", "N^", "n^",
    "S^", "s^", "X^", "x^", "Z^", "z^", "+acute", "+dot", "+ogonek", "--em">>

Rank == [c \in {CodeOrder[i] : i \in 1..Len(CodeOrder)} |->
           CHOOSE i \in 1..Len(CodeOrder) : CodeOrder[i] = c]

RECURSIVE TextLess(_, _)
TextLess(a, b) ==
  IF b = <<>> THEN FALSE
  ELSE IF a = <<>> THEN TRUE
  ELSE IF Head(a) = Head(b) THEN TextLess(Tail(a), Tail(b))
  ELSE Rank[Head(a)] < Rank[Head(b)]

\* The group keys of obs.groupby("Oznaczenie sadu"): the distinct cells of the
\* column, NaN dropped, sorted.
RECURSIVE sorted_texts(_)
sorted_texts(S) ==
  IF S = {} THEN <<>>
  ELSE LET m == CHOOSE x \in S : \A y \in S \ {x} : TextLess(x, y)
       IN  <<m>> \o sorted_texts(S \ {m})

group_keys(rows) == sorted_texts({rows[i].Oznaczenie : i \in 1..Len(rows)} \ {NaN})

group_of(rows, key) == SelectSeq(rows, LAMBDA r : r.Oznaczenie = key)

\* woj_vals: the group's voivodeship cells, NaN dropped, as stripped texts, without
\* the empty ones and "nan"
woj_vals(g) ==
  LET cells == SelectSeq([i \in 1..Len(g) |-> g[i].Wojewodztwo], LAMBDA x : x # NaN)
      texts == [i \in 1..Len(cells) |-> strip(str(cells[i]))]
  IN  SelectSeq(texts, LAMBDA w : w # <<>> /\ lower(w) # U("nan"))

\* str(r.get(col) or "").strip(): an empty cell (NaN) reads "nan"
cell_text(x) == strip(str(IF x = None THEN <<>> ELSE x))

\* The loop over the rows of one group: m_map, first occurrence of a key wins
RECURSIVE m_map_from(_, _, _)
m_map_from(g, i, m_map) ==
  IF i > Len(g) THEN m_map
  ELSE LET m == cell_text(g[i].Miejscowosc)
       IN  IF m = <<>> \/ lower(m) = U("nan") THEN m_map_from(g, i + 1, m_map)
           ELSE m_map_from(g, i + 1,
                  SetDefault(m_map, norm_key(m),
                             <<cell_text(g[i].Wojewodztwo), cell_text(g[i].Powiat),
                               cell_text(g[i].Gmina), m>>))

\* The loop over the groups, in the order of their keys, with the two
\* dictionaries so far; the result is <<court_to_woj, court_to_miejsc>>.
RECURSIVE obszar_index_from(_, _, _, _)
obszar_index_from(rows, keys, c_woj, c_miejsc) ==
  IF keys = <<>> THEN <<c_woj, c_miejsc>>
  ELSE LET g == group_of(rows, Head(keys))
           code == upper(strip(str(Head(keys))))
           vals == woj_vals(g)
       IN  obszar_index_from(rows, Tail(keys),
             IF Cardinality({vals[i] : i \in 1..Len(vals)}) = 1
             THEN Put(c_woj, code, vals[1]) ELSE c_woj,
             Put(c_miejsc, code, m_map_from(g, 1, EmptyDict)))

build_obszar_index(rows) == obszar_index_from(rows, group_keys(rows), EmptyDict, EmptyDict)

-----------------------------------------------------------------------------
(* Stage 2: main, one row of the report *)

COL_WOJ == "Wojewodztwo"
COL_POW == "Powiat"
COL_GMI == "Gmina"
COL_MIA == "Miejscowosc"
COL_KW == "Nr KW"

AdminCols == {COL_WOJ, COL_POW, COL_GMI, COL_MIA}

HINT_COLS ==
  <<"_addr_hint", "Caly adres (dla lokalu)", "Polozenie", "Ulica(dla lokalu)",
    "Ulica(dla budynku)", "Ulica", "Dzielnica", "Miejscowosc">>

\* Python's truth of a text or None
Falsy(x) == x = None \/ x = <<>>

\* The parts of build_hint_text from column i of HINT_COLS on
RECURSIVE hint_parts(_, _)
hint_parts(r, i) ==
  IF i > Len(HINT_COLS) THEN <<>>
  ELSE LET c == HINT_COLS[i]
           v == IF c \in DOMAIN r THEN norm_missing(r[c]) ELSE None
       IN  (IF Falsy(v) THEN <<>> ELSE <<v>>) \o hint_parts(r, i + 1)

\* " | ".join(parts)
RECURSIVE join_parts(_)
join_parts(parts) ==
  IF parts = <<>> THEN <<>>
  ELSE IF Len(parts) = 1 THEN parts[1]
       ELSE parts[1] \o U(" | ") \o join_parts(Tail(parts))

build_hint_text(r) == join_parts(hint_parts(r, 1))

\* (a fill_from_teryt that takes the first row of the key whatever the voivodeship)
fill_from_teryt_first(miejsc_key, wanted_woj, to_rows) ==
  LET rows == IF miejsc_key \in DOMAIN to_rows THEN to_rows[miejsc_key] ELSE <<>>
  IN  IF rows = <<>> THEN <<None, None, None>>
      ELSE [i \in 1..3 |-> IF rows[1][i] = <<>> THEN None ELSE rows[1][i]]

\* (a fill_from_teryt that gives county and municipality only once the voivodeship is known)
fill_from_teryt_needs_region(miejsc_key, wanted_woj, to_rows) ==
  LET rows == IF miejsc_key \in DOMAIN to_rows THEN to_rows[miejsc_key] ELSE <<>>
  IN  IF rows = <<>> THEN <<None, None, None>>
      ELSE LET filtered ==
                 IF Falsy(wanted_woj) THEN <<>>
                 ELSE SelectSeq(rows, LAMBDA r : norm_key(r[1]) = norm_key(wanted_woj))
               r1 == IF filtered # <<>> THEN filtered[1] ELSE rows[1]
           IN  [i \in 1..3 |-> IF r1[i] = <<>> \/ (i > 1 /\ Falsy(wanted_woj))
                               THEN None ELSE r1[i]]

\* fill_from_teryt: <<woj, powiat, gmina>>, each None when empty
fill_from_teryt(miejsc_key, wanted_woj, to_rows) ==
  LET rows == IF miejsc_key \in DOMAIN to_rows THEN to_rows[miejsc_key] ELSE <<>>
  IN  IF rows = <<>> THEN <<None, None, None>>
      ELSE LET filtered ==
                 IF Falsy(wanted_woj) THEN <<>>
                 ELSE SelectSeq(rows, LAMBDA r : norm_key(r[1]) = norm_key(wanted_woj))
               r1 == IF filtered # <<>> THEN filtered[1] ELSE rows[1]
           IN  [i \in 1..3 |-> IF r1[i] = <<>> THEN None ELSE r1[i]]

\* The report as saved and read again: an empty value comes back as an empty cell
saved_cell(x) == IF x = None \/ x = <<>> THEN NaN ELSE x

MaxTeryt == 2
MaxObs == 2

ORow(c, w, p, g, m) ==
  [Oznaczenie |-> c, Wojewodztwo |-> w, Powiat |-> p, Gmina |-> g, Miejscowosc |-> m]

ObszarPool ==
  { ORow(U("WR1K"), U("DOLNOS^LA^SKIE"), U("wol^owski"), U(" "), U("Wol^o^w")),
    ORow(U("wr1k "), U("mazowieckie"), NaN, U("Bielsk"), U("L^a^ka")),
    ORow(U("WR1K"), NaN, U("s^redzki"), U("Wol^o^w"), U("WOL^O^W")) }

\* The rows of the TERYT file of a run of main: one locality name in two voivodeships
ReferencePool ==
  { TRow(U("MAZOWIECKIE"), U("pl^ocki"), U("Bielsk"), U("L^A^KA")),
    TRow(U("DOLNOS^LA^SKIE"), NaN, U("Wol^o^w"), U(" L^a^ka")) }

Report(w, p, g, m, kw, ah) ==
  [c \in {COL_WOJ, COL_POW, COL_GMI, COL_MIA, COL_KW, "_addr_hint", "Ulica"} |->
     CASE c = COL_WOJ -> w
       [] c = COL_POW -> p
       [] c = COL_GMI -> g
       [] c = COL_MIA -> m
       [] c = COL_KW -> kw
       [] c = "_addr_hint" -> ah
       [] OTHER -> NaN]

Reports ==
  { Report(w, pg[1], pg[2], m, kw, ah) :
      w \in {NaN, U("Dolnos^la^skie")},
      pg \in {<<U("---"), NaN>>, <<U("pl^ocki"), U("Bielsk")>>},
      m \in {U(" brak "), U("L^a^ka")},
      kw \in {NaN, U("WR1K/00012345/6")},
      ah \in {NaN, U("UL. DL^UGA 5, L^A^KA"), U("WOL^O^W | UL. POLNA"), U("UL. POLNA 5")} }

MainInit ==
  /\ teryt \in SeqsOfDistinct(ReferencePool, MaxTeryt)
  /\ obs \in SeqsOfDistinct(ObszarPool, MaxObs)
  /\ IndexesEmpty
  /\ df \in Reports
  /\ row = NoRow
  /\ woj = None /\ powiat = None /\ gmina = None /\ miejsc = None
  /\ court_code = None /\ hint = <<>> /\ rerun = FALSE
  /\ pc = "load"

\* main up to the loop: the indexes are built, the four columns are normalised
\* with norm_missing and "Nr KW" is made a stripped text
Load ==
  /\ pc = "load"
  /\ LET ix == build_teryt_index(load_teryt(teryt))
         ox == build_obszar_index(obs)
     IN  /\ miejsc_keys_set' = ix[1]
         /\ miejsc_key_to_canon' = ix[2]
         /\ miejsc_to_rows' = ix[3]
         /\ court_to_woj' = ox[1]
         /\ court_to_miejsc' = ox[2]
  /\ df' = [c \in DOMAIN df |->
              IF c \in AdminCols THEN norm_missing(df[c])
              ELSE IF c = COL_KW THEN (IF df[c] = NaN THEN <<>> ELSE strip(str(df[c])))
              ELSE df[c]]
  /\ pc' = "row"
  /\ UNCHANGED <<refVars, row, woj, powiat, gmina, miejsc, court_code, hint, rerun,
                 histVars, guessVars>>

\* The head of the loop body: the copy of the row, the four values, the court code
ReadRow ==
  /\ pc = "row"
  /\ row' = df
  /\ woj' = norm_missing(df[COL_WOJ])
  /\ powiat' = norm_missing(df[COL_POW])
  /\ gmina' = norm_missing(df[COL_GMI])
  /\ miejsc' = norm_missing(df[COL_MIA])
  /\ court_code' = IF COL_KW \in DOMAIN df THEN extract_court_code(df[COL_KW]) ELSE None
  /\ pc' = "step1"
  /\ UNCHANGED <<refVars, terytIndexVars, obszarIndexVars, df, hint, rerun,
                 histVars, guessVars>>

\* (a step 1 that writes the court's voivodeship as stored, without title_pl)
Step1_raw ==
  /\ pc = "step1"
  /\ IF Falsy(woj) /\ ~Falsy(court_code) /\ court_code \in DOMAIN court_to_woj
     THEN /\ woj' = court_to_woj[court_code]
          /\ df' = [df EXCEPT ![COL_WOJ] = court_to_woj[court_code]]
     ELSE UNCHANGED <<woj, df>>
  /\ pc' = "step2"
  /\ UNCHANGED <<refVars, terytIndexVars, obszarIndexVars, row, powiat, gmina, miejsc,
                 court_code, hint, rerun, histVars, guessVars>>

\* Step 1: no voivodeship, a court code, and the court has one voivodeship
Step1 ==
  /\ pc = "step1"
  /\ IF Falsy(woj) /\ ~Falsy(court_code) /\ court_code \in DOMAIN court_to_woj
     THEN /\ woj' = court_to_woj[court_code]
          /\ df' = [df EXCEPT ![COL_WOJ] = title_pl(court_to_woj[court_code])]
     ELSE UNCHANGED <<woj, df>>
  /\ pc' = "step2"
  /\ UNCHANGED <<refVars, terytIndexVars, obszarIndexVars, row, powiat, gmina, miejsc,
                 court_code, hint, rerun, histVars, guessVars>>

\* Step 2: the hint is built; no locality: guess it against the TERYT index
Step2 ==
  /\ pc = "step2"
  /\ hint' = build_hint_text(row)
  /\ LET guess == IF Falsy(miejsc)
                  THEN guess_miejscowosc_from_hint(build_hint_text(row), miejsc_keys_set,
                                                   miejsc_key_to_canon)
                  ELSE None
     IN  IF ~Falsy(guess)
         THEN /\ miejsc' = guess
              /\ df' = [df EXCEPT ![COL_MIA] = title_pl(guess)]
         ELSE UNCHANGED <<miejsc, df>>
  /\ pc' = "step3"
  /\ UNCHANGED <<refVars, terytIndexVars, obszarIndexVars, row, woj, powiat, gmina,
                 court_code, rerun, histVars, guessVars>>

\* (a step 3 that asks the court's localities whether or not step 2 found one)
Step3_any_locality ==
  /\ pc = "step3"
  /\ IF ~Falsy(court_code) /\ court_code \in DOMAIN court_to_miejsc
     THEN LET m_map == court_to_miejsc[court_code]
              local_key_to_canon == [k \in DOMAIN m_map |-> m_map[k][4]]
              guess_local == guess_miejscowosc_from_hint(hint, DOMAIN m_map, local_key_to_canon)
          IN  IF ~Falsy(guess_local)
              THEN LET k == norm_key(guess_local)
                       o == IF k \in DOMAIN m_map THEN m_map[k] ELSE <<<<>>, <<>>, <<>>, <<>>>>
                       fw == Falsy(woj) /\ ~Falsy(o[1])
                       fp == Falsy(powiat) /\ ~Falsy(o[2])
                       fg == Falsy(gmina) /\ ~Falsy(o[3])
                   IN  /\ miejsc' = guess_local
                       /\ woj' = IF fw THEN o[1] ELSE woj
                       /\ powiat' = IF fp THEN o[2] ELSE powiat
                       /\ gmina' = IF fg THEN o[3] ELSE gmina
                       /\ df' = [c \in DOMAIN df |->
                                   CASE c = COL_MIA -> title_pl(guess_local)
                                     [] c = COL_WOJ /\ fw -> title_pl(o[1])
                                     [] c = COL_POW /\ fp -> title_pl(o[2])
                                     [] c = COL_GMI /\ fg -> title_pl(o[3])
                                     [] OTHER -> df[c]]
              ELSE UNCHANGED <<miejsc, woj, powiat, gmina, df>>
     ELSE UNCHANGED <<miejsc, woj, powiat, gmina, df>>
  /\ pc' = "step4"
  /\ UNCHANGED <<refVars, terytIndexVars, obszarIndexVars, row, court_code, hint, rerun,
                 histVars, guessVars>>

\* Step 3: still no locality, a court code: guess it against the court's own
\* localities, and take the court's voivodeship, county and municipality for it
Step3 ==
  /\ pc = "step3"
  /\ IF Falsy(miejsc) /\ ~Falsy(court_code) /\ court_code \in DOMAIN court_to_miejsc
     THEN LET m_map == court_to_miejsc[court_code]
              local_key_to_canon == [k \in DOMAIN m_map |-> m_map[k][4]]
              guess_local == guess_miejscowosc_from_hint(hint, DOMAIN m_map, local_key_to_canon)
          IN  IF ~Falsy(guess_local)
              THEN LET k == norm_key(guess_local)
                       o == IF k \in DOMAIN m_map THEN m_map[k] ELSE <<<<>>, <<>>, <<>>, <<>>>>
                       fw == Falsy(woj) /\ ~Falsy(o[1])
                       fp == Falsy(powiat) /\ ~Falsy(o[2])
                       fg == Falsy(gmina) /\ ~Falsy(o[3])
                   IN  /\ miejsc' = guess_local
                       /\ woj' = IF fw THEN o[1] ELSE woj
                       /\ powiat' = IF fp THEN o[2] ELSE powiat
                       /\ gmina' = IF fg THEN o[3] ELSE gmina
                       /\ df' = [c \in DOMAIN df |->
                                   CASE c = COL_MIA -> title_pl(guess_local)
                                     [] c = COL_WOJ /\ fw -> title_pl(o[1])
                                     [] c = COL_POW /\ fp -> title_pl(o[2])
                                     [] c = COL_GMI /\ fg -> title_pl(o[3])
                                     [] OTHER -> df[c]]
              ELSE UNCHANGED <<miejsc, woj, powiat, gmina, df>>
     ELSE UNCHANGED <<miejsc, woj, powiat, gmina, df>>
  /\ pc' = "step4"
  /\ UNCHANGED <<refVars, terytIndexVars, obszarIndexVars, row, court_code, hint, rerun,
                 histVars, guessVars>>

\* (a step 4 that writes the voivodeship of the TERYT row whether or not the report has one)
Step4_overwrite ==
  /\ pc = "step4"
  /\ IF ~Falsy(miejsc)
     THEN LET t == fill_from_teryt(norm_key(miejsc), woj, miejsc_to_rows)
              fw ==  ~Falsy(t[1])
              fp == Falsy(powiat) /\ ~Falsy(t[2])
              fg == Falsy(gmina) /\ ~Falsy(t[3])
          IN  /\ woj' = IF fw THEN t[1] ELSE woj
              /\ powiat' = IF fp THEN t[2] ELSE powiat
              /\ gmina' = IF fg THEN t[3] ELSE gmina
              /\ df' = [c \in DOMAIN df |->
                          CASE c = COL_WOJ /\ fw -> title_pl(t[1])
                            [] c = COL_POW /\ fp -> title_pl(t[2])
                            [] c = COL_GMI /\ fg -> title_pl(t[3])
                            [] OTHER -> df[c]]
     ELSE UNCHANGED <<woj, powiat, gmina, df>>
  /\ pc' = "done"
  /\ UNCHANGED <<refVars, terytIndexVars, obszarIndexVars, row, miejsc, court_code, hint,
                 rerun, histVars, guessVars>>

\* Step 4: a locality: voivodeship, county and municipality from the TERYT index
Step4 ==
  /\ pc = "step4"
  /\ IF ~Falsy(miejsc)
     THEN LET t == fill_from_teryt(norm_key(miejsc), woj, miejsc_to_rows)
              fw == Falsy(woj) /\ ~Falsy(t[1])
              fp == Falsy(powiat) /\ ~Falsy(t[2])
              fg == Falsy(gmina) /\ ~Falsy(t[3])
          IN  /\ woj' = IF fw THEN t[1] ELSE woj
              /\ powiat' = IF fp THEN t[2] ELSE powiat
              /\ gmina' = IF fg THEN t[3] ELSE gmina
              /\ df' = [c \in DOMAIN df |->
                          CASE c = COL_WOJ /\ fw -> title_pl(t[1])
                            [] c = COL_POW /\ fp -> title_pl(t[2])
                            [] c = COL_GMI /\ fg -> title_pl(t[3])
                            [] OTHER -> df[c]]
     ELSE UNCHANGED <<woj, powiat, gmina, df>>
  /\ pc' = "done"
  /\ UNCHANGED <<refVars, terytIndexVars, obszarIndexVars, row, miejsc, court_code, hint,
                 rerun, histVars, guessVars>>

\* The report is saved (to_excel) and the program is run on it again
Rerun ==
  /\ pc = "done"
  /\ df' = [c \in DOMAIN df |-> saved_cell(df[c])]
  /\ row' = NoRow
  /\ woj' = None /\ powiat' = None /\ gmina' = None /\ miejsc' = None
  /\ court_code' = None /\ hint' = <<>>
  /\ rerun' = TRUE
  /\ pc' = "load"
  /\ UNCHANGED <<refVars, terytIndexVars, obszarIndexVars, histVars, guessVars>>

Next == Load \/ ReadRow \/ Step1 \/ Step2 \/ Step3 \/ Step4 \/ Rerun

vars == <<histVars, guessVars, mainVars>>

InitHist == HistInit /\ GuessIdle /\ MainIdle
SpecHist == InitHist /\ [][ReplaceHistorical]_vars

InitGuess == GuessInit /\ HistIdle /\ MainIdle
SpecGuess == InitGuess /\ [][Guess]_vars

InitIndex == IndexInit /\ HistIdle /\ GuessIdle
SpecIndex == InitIndex /\ [][BuildTerytIndex]_vars

Init == MainInit /\ HistIdle /\ GuessIdle
Spec == Init /\ [][Next]_vars

-----------------------------------------------------------------------------
(* Properties of replace_historical_voivodeship *)

(* C2: every historical name, with its Polish letters and in any letter case,
   is replaced by its documented modern name in upper case, never by the
   upper-cased input. *)
C2_HistoricalAlwaysResolved ==
  (h_pc = "done" /\ h_val \notin {None, NaN} /\ IsHistoricalName(h_val))
    => h_res = DocumentedModern(h_val)

-----------------------------------------------------------------------------
(* Properties of guess_miejscowosc_from_hint *)

\* The positions of the segments of the hint whose key, prefix removed, is a
\* candidate key.
MatchingSegments(txt, keys) ==
  LET segs == hint_segments(txt)
  IN  {i \in 1..Len(segs) : strip_prefix(segs[i]) \in keys}

SegmentKey(txt, i) == strip_prefix(hint_segments(txt)[i])

\* The n-gram of the words ws that starts at word i.
Gram(ws, n, i) == join_words(SubSeq(ws, i, i + n - 1))

\* The (n, i) of the n-grams, n in 1..4, of the normalized hint that are candidate keys.
GramHits(txt, keys) ==
  LET ws == split_words(norm_key(txt))
  IN  {p \in (1..4) \X (1..Len(ws)) :
         p[2] + p[1] - 1 <= Len(ws) /\ Gram(ws, p[1], p[2]) \in keys}

(* C4: whenever some segment's key (prefix removed) is a candidate key, the
   result is the canonical name of the LAST such segment of the text; no
   n-gram of the whole hint takes precedence. *)
C4_LastMatchingSegmentWins ==
  (g_pc = "done" /\ MatchingSegments(g_hint, DOMAIN g_canon) # {})
    => LET M == MatchingSegments(g_hint, DOMAIN g_canon)
           last == CHOOSE i \in M : \A j \in M : j <= i
       IN  g_res = g_canon[SegmentKey(g_hint, last)]

\* Two segments match different keys, an n-gram of the hint is a key too, and
\* the guess has returned.
C4_Witness ==
  /\ g_pc = "done"
  /\ \E i, j \in MatchingSegments(g_hint, DOMAIN g_canon) :
        /\ i < j
        /\ SegmentKey(g_hint, i) # SegmentKey(g_hint, j)
        /\ g_res = g_canon[SegmentKey(g_hint, j)]
  /\ \E p \in GramHits(g_hint, DOMAIN g_canon) : p[1] >= 2

(* C5: when no segment matches, the result is the canonical name of the
   leftmost n-gram of the normalized hint for the largest n in 4,3,2,1 that has
   a candidate key (None when there is none): never a shorter phrase while a
   longer n-gram is a candidate key. *)
C5_LongestLeftmostNgram ==
  (g_pc = "done" /\ MatchingSegments(g_hint, DOMAIN g_canon) = {})
    => LET H == GramHits(g_hint, DOMAIN g_canon)
           ws == split_words(norm_key(g_hint))
       IN  IF H = {} THEN g_res = None
           ELSE \E p \in H :
                  /\ \A q \in H : q[1] < p[1] \/ (q[1] = p[1] /\ q[2] >= p[2])
                  /\ g_res = g_canon[Gram(ws, p[1], p[2])]

\* No segment matches, a one-word and a longer n-gram are both candidate keys,
\* and the longer one was returned.
C5_Witness ==
  /\ g_pc = "done"
  /\ MatchingSegments(g_hint, DOMAIN g_canon) = {}
  /\ \E p, q \in GramHits(g_hint, DOMAIN g_canon) :
        /\ p[1] = 1 /\ q[1] >= 2 /\ p[2] < q[2]
        /\ g_res = g_canon[Gram(split_words(norm_key(g_hint)), q[1], q[2])]
        /\ g_res # g_canon[Gram(split_words(norm_key(g_hint)), p[1], p[2])]

-----------------------------------------------------------------------------
(* Properties of build_teryt_index *)

\* The text of a cell of teryt.csv as build_teryt_index sees it
CellText(x) == IF x = NaN \/ x = None THEN <<>> ELSE strip(x)

\* The positions of the rows of the file whose locality has key k
RowsOfKey(file, k) ==
  {i \in 1..Len(file) : CellText(file[i].Miejscowosc) # <<>> /\ norm_key(file[i].Miejscowosc) = k}

FileKeys(file) ==
  {norm_key(file[i].Miejscowosc) : i \in {j \in 1..Len(file) : CellText(file[j].Miejscowosc) # <<>>}}

\* The i-th smallest member of a finite set of numbers
RECURSIVE Nth(_, _)
Nth(S, i) ==
  LET m == CHOOSE x \in S : \A y \in S : x <= y
  IN  IF i = 1 THEN m ELSE Nth(S \ {m}, i - 1)

(* C10: rows with an empty locality contribute nothing; the canonical spelling
   of a key is the locality text of the FIRST row with that key; the row list
   of a key holds the (region, county, municipality) of exactly the rows with
   that key, in file order; the key set is the key set of the canonical map. *)
C10_TerytIndex ==
  pc = "built" =>
    /\ miejsc_keys_set = FileKeys(teryt)
    /\ DOMAIN miejsc_key_to_canon = miejsc_keys_set
    /\ DOMAIN miejsc_to_rows = miejsc_keys_set
    /\ \A k \in FileKeys(teryt) :
         LET R == RowsOfKey(teryt, k)
         IN  /\ miejsc_key_to_canon[k] = CellText(teryt[Nth(R, 1)].Miejscowosc)
             /\ Len(miejsc_to_rows[k]) = Cardinality(R)
             /\ \A n \in 1..Cardinality(R) :
                  miejsc_to_rows[k][n] =
                    <<CellText(teryt[Nth(R, n)].Wojewodztwo), CellText(teryt[Nth(R, n)].Powiat),
                      CellText(teryt[Nth(R, n)].Gmina)>>

\* An index built from a file with a row without locality and a key that three
\* rows spell in more than one way.
C10_Witness ==
  /\ pc = "built"
  /\ \E i \in 1..Len(teryt) : teryt[i].Miejscowosc = NaN
  /\ \E k \in miejsc_keys_set :
       /\ Len(miejsc_to_rows[k]) >= 2
       /\ \E i \in RowsOfKey(teryt, k) : CellText(teryt[i].Miejscowosc) # miejsc_key_to_canon[k]
       /\ miejsc_to_rows[k][1] # miejsc_to_rows[k][2]

-----------------------------------------------------------------------------
(* Properties of main *)

StepPcs == {"step1", "step2", "step3", "step4"}

\* The three values main keeps beside the locality, and their columns
Known == <<woj, powiat, gmina>>
Cols == <<COL_WOJ, COL_POW, COL_GMI>>

(* C1: at every step 1-4 a field of the four that is not missing keeps its
   value (a fill writes a missing field only); a row whose four fields are all
   present comes out as it was read, on a second run too. *)
C1_NeverOverwritten ==
  /\ [][(pc \in StepPcs) => \A c \in AdminCols : ~Falsy(df[c]) => df'[c] = df[c]]_vars
  /\ [](pc = "done" /\ (\A c \in AdminCols : ~Falsy(row[c]))
          => \A c \in AdminCols : df[c] = row[c])

\* A second run has finished a row with all four fields, whose court has another
\* spelling of the voivodeship and whose locality has rows in the TERYT index.
C1_Witness ==
  /\ pc = "done" /\ rerun
  /\ \A c \in AdminCols : ~Falsy(row[c])
  /\ ~Falsy(court_code) /\ court_code \in DOMAIN court_to_woj
  /\ title_pl(court_to_woj[court_code]) # row[COL_WOJ]
  /\ norm_key(miejsc) \in DOMAIN miejsc_to_rows
  /\ \E r \in {miejsc_to_rows[norm_key(miejsc)][i] :
                 i \in 1..Len(miejsc_to_rows[norm_key(miejsc)])} :
        title_pl(r[3]) # row[COL_GMI]

(* C3: a row without voivodeship whose "Nr KW" begins with WR1K, a court the
   index gives the one voivodeship "DOLNOS^LA^SKIE": after step 1 the report
   has "Dolnos^la^skie", whatever the hint. *)
C3_DisplayCased ==
  (/\ pc \in {"step2", "step3", "step4", "done"}
   /\ Falsy(row[COL_WOJ])
   /\ court_code = U("WR1K")
   /\ court_code \in DOMAIN court_to_woj
   /\ court_to_woj[court_code] = U("DOLNOS^LA^SKIE"))
    => df[COL_WOJ] = U("Dolnos^la^skie")

\* The guess of step 2, against the TERYT index
GlobalGuess ==
  guess_miejscowosc_from_hint(build_hint_text(row), miejsc_keys_set, miejsc_key_to_canon)

HasCourt == ~Falsy(court_code) /\ court_code \in DOMAIN court_to_miejsc

\* The guess of step 3, against the localities of the row's court
LocalCanon ==
  [k \in DOMAIN court_to_miejsc[court_code] |-> court_to_miejsc[court_code][k][4]]
LocalGuess == guess_miejscowosc_from_hint(build_hint_text(row), DOMAIN LocalCanon, LocalCanon)
LocalTuple == court_to_miejsc[court_code][norm_key(LocalGuess)]

\* Step 3 has a guess to make and makes one
LocalInference ==
  Falsy(row[COL_MIA]) /\ Falsy(GlobalGuess) /\ HasCourt /\ ~Falsy(LocalGuess)

\* Step 2 of a row without locality writes the guess made against the TERYT index
GlobalFirst ==
  (pc = "step2" /\ Falsy(row[COL_MIA]) /\ ~Falsy(GlobalGuess))
    => df'[COL_MIA] = title_pl(GlobalGuess)

(* C6 as stated: the TERYT index is asked first; the court's localities are
   asked only when that found nothing and the court is in the index; when they
   give a locality, it is written and EVERY field of voivodeship, county,
   municipality that is still missing is filled from the court's tuple, in
   step 3, before step 4. *)
C6_LocalFillsEveryMissing ==
  [][/\ GlobalFirst
     /\ pc = "step3" =>
          IF LocalInference
          THEN /\ df'[COL_MIA] = title_pl(LocalGuess)
               /\ \A i \in 1..3 :
                    IF Falsy(Known[i])
                    THEN ~Falsy(df'[Cols[i]]) /\ df'[Cols[i]] = title_pl(LocalTuple[i])
                    ELSE df'[Cols[i]] = df[Cols[i]]
          ELSE df' = df]_vars

(* C6, amended: as above, but a still missing field is filled only when the
   court's tuple has a value for it; an empty component leaves it missing. *)
C6_LocalFillsFromTuple ==
  [][/\ GlobalFirst
     /\ pc = "step3" =>
          IF LocalInference
          THEN /\ df'[COL_MIA] = title_pl(LocalGuess)
               /\ \A i \in 1..3 :
                    df'[Cols[i]] = IF Falsy(Known[i]) /\ ~Falsy(LocalTuple[i])
                                   THEN title_pl(LocalTuple[i])
                                   ELSE df[Cols[i]]
          ELSE df' = df]_vars

\* Step 3 has found the locality among the court's, filled the county from the
\* court's tuple and left the municipality, empty in the tuple, missing.
C6_Witness ==
  /\ pc = "step4"
  /\ LocalInference
  /\ df[COL_MIA] = title_pl(LocalGuess)
  /\ miejsc_keys_set # {}
  /\ Falsy(row[COL_POW]) /\ ~Falsy(LocalTuple[2]) /\ df[COL_POW] = title_pl(LocalTuple[2])
  /\ Falsy(row[COL_GMI]) /\ Falsy(LocalTuple[3]) /\ Falsy(df[COL_GMI])

\* The (voivodeship, county, municipality) of row i of the TERYT file
TerytTuple(i) ==
  <<CellText(teryt[i].Wojewodztwo), CellText(teryt[i].Powiat), CellText(teryt[i].Gmina)>>

\* The rows of the TERYT file for the locality, and those of them in the voivodeship w
LocalityRows == RowsOfKey(teryt, norm_key(miejsc))
RegionRows(w) ==
  {i \in LocalityRows : norm_key(CellText(teryt[i].Wojewodztwo)) = norm_key(w)}
ChosenRow(w) ==
  IF ~Falsy(w) /\ RegionRows(w) # {} THEN Nth(RegionRows(w), 1) ELSE Nth(LocalityRows, 1)

(* C7 as stated: with a locality that has rows in the TERYT index, step 4 takes
   the first row, in file order, of the known voivodeship (normalized
   comparison) if there is one, else the first row of the locality, and EVERY
   field of voivodeship, county, municipality that is still missing is filled
   from that one row. *)
C7_FilledFromOneRow ==
  [][pc = "step4" =>
       IF ~Falsy(miejsc) /\ LocalityRows # {}
       THEN \A i \in 1..3 :
              IF Falsy(Known[i])
              THEN /\ ~Falsy(df'[Cols[i]])
                   /\ df'[Cols[i]] = title_pl(TerytTuple(ChosenRow(woj))[i])
              ELSE df'[Cols[i]] = df[Cols[i]]
       ELSE df' = df]_vars

(* C7, amended: the row is chosen as above; a still missing field is filled
   from that one row when the row has a value for it, and stays missing when
   the row's value is empty (no other row of the locality is used). *)
C7_FilledFromOneRowIfPresent ==
  [][pc = "step4" =>
       IF ~Falsy(miejsc) /\ LocalityRows # {}
       THEN /\ df'[COL_MIA] = df[COL_MIA]
            /\ \A i \in 1..3 :
                 df'[Cols[i]] = IF Falsy(Known[i]) /\ ~Falsy(TerytTuple(ChosenRow(woj))[i])
                                THEN title_pl(TerytTuple(ChosenRow(woj))[i])
                                ELSE df[Cols[i]]
       ELSE df' = df]_vars

\* A finished row whose voivodeship was known and is that of the second TERYT row
\* of its locality: the municipality came from that row, the county, empty in
\* it, is still missing.
C7_Witness ==
  /\ pc = "done"
  /\ ~Falsy(miejsc) /\ ~Falsy(row[COL_WOJ])
  /\ Cardinality(LocalityRows) >= 2
  /\ RegionRows(row[COL_WOJ]) # {}
  /\ ChosenRow(row[COL_WOJ]) # Nth(LocalityRows, 1)
  /\ Falsy(row[COL_GMI])
  /\ df[COL_GMI] = title_pl(TerytTuple(ChosenRow(row[COL_WOJ]))[3])
  /\ df[COL_GMI] # title_pl(TerytTuple(Nth(LocalityRows, 1))[3])
  /\ Falsy(row[COL_POW]) /\ Falsy(TerytTuple(ChosenRow(row[COL_WOJ]))[2]) /\ Falsy(df[COL_POW])

\* The code a row of obszar_sadow.xlsx is tagged with, as the index spells codes
CodeOf(i) == upper(strip(str(obs[i].Oznaczenie)))
Tagged == {i \in 1..Len(obs) : obs[i].Oznaczenie # NaN}
CourtCodes == {CodeOf(i) : i \in Tagged}

\* The distinct non-empty voivodeships of the rows tagged with a code
RegionsOf(code) ==
  {strip(str(obs[i].Wojewodztwo)) :
     i \in {j \in Tagged : CodeOf(j) = code /\ obs[j].Wojewodztwo # NaN}} \ {<<>>}

(* C8: the index has a voivodeship for a court code if and only if the rows
   tagged with the code have exactly one distinct non-empty voivodeship, and
   then it is that one; for a code with two or more (or none) step 1 leaves a
   missing voivodeship missing. *)
C8_UniqueRegionOnly ==
  pc \in StepPcs \cup {"row", "done"} =>
    /\ DOMAIN court_to_woj \subseteq CourtCodes
    /\ \A code \in CourtCodes :
         IF Cardinality(RegionsOf(code)) = 1
         THEN code \in DOMAIN court_to_woj /\ court_to_woj[code] \in RegionsOf(code)
         ELSE code \notin DOMAIN court_to_woj
    /\ (pc = "step2" /\ Falsy(row[COL_WOJ]) /\ ~Falsy(court_code)
          /\ Cardinality(RegionsOf(court_code)) # 1) => Falsy(df[COL_WOJ])

\* No segment and no n-gram of the text is among the keys
NoMatch(txt, keys) == MatchingSegments(txt, keys) = {} /\ GramHits(txt, keys) = {}

LocalKeys == IF HasCourt THEN DOMAIN court_to_miejsc[court_code] ELSE {}

\* A row without locality whose hint has words, none of them a locality of the
\* TERYT index or of the row's court
NothingMatches ==
  /\ Falsy(row[COL_MIA])
  /\ build_hint_text(row) # <<>>
  /\ NoMatch(build_hint_text(row), miejsc_keys_set)
  /\ NoMatch(build_hint_text(row), LocalKeys)

NoGuess == GlobalGuess = None /\ (HasCourt => LocalGuess = None)

(* C9 as stated: when nothing in the hint of a row without locality is a key of
   the TERYT index or of the court's localities, the guesses are None and the
   row comes out with no field changed. *)
C9_NoFieldModified ==
  (pc = "done" /\ NothingMatches)
    => NoGuess /\ \A c \in AdminCols : df[c] = row[c]

(* C9, amended: then the guesses are None and locality, county and municipality
   are unchanged; the voivodeship is unchanged too, unless it was missing and
   the index has a voivodeship for the row's court: step 1 writes that one. *)
C9_OnlyRegionFromCourt ==
  (pc = "done" /\ NothingMatches)
    => /\ NoGuess
       /\ \A c \in {COL_POW, COL_GMI, COL_MIA} : df[c] = row[c]
       /\ df[COL_WOJ] =
            IF Falsy(row[COL_WOJ]) /\ ~Falsy(court_code) /\ court_code \in DOMAIN court_to_woj
            THEN title_pl(court_to_woj[court_code])
            ELSE row[COL_WOJ]

\* A finished row whose hint matched nothing, with both indexes non-empty, and
\* whose voivodeship step 1 has filled.
C9_Witness ==
  /\ pc = "done"
  /\ NothingMatches
  /\ miejsc_keys_set # {} /\ LocalKeys # {}
  /\ Falsy(row[COL_WOJ]) /\ ~Falsy(df[COL_WOJ])
  /\ Falsy(df[COL_MIA])

(* C11: completion is idempotent on every row, not only on a full one: on a
   run over the report a first run has saved, steps 1-4 write no cell of the
   four fields, and the row ends as it was read, although the first run has
   changed which voivodeship step 4 prefers and which steps are skipped; the
   normalisation before the loop leaves every field as norm_missing reads it. *)
C11_Idempotent ==
  /\ [][(rerun /\ pc \in StepPcs) => \A c \in AdminCols : df'[c] = df[c]]_vars
  /\ [][(rerun /\ pc = "load") =>
          \A c \in AdminCols : norm_missing(df'[c]) = norm_missing(df[c])]_vars
  /\ [](pc = "done" /\ rerun => \A c \in AdminCols : df[c] = row[c])

\* A second run has finished a row whose voivodeship an earlier run took from
\* the TERYT file; that voivodeship is the one of the first of two rows of the
\* locality, the county is still missing, and the other row has a county.
C11_Witness ==
  /\ pc = "done" /\ rerun
  /\ row[COL_WOJ] = U("DOLNOS^LA^SKIE")
  /\ ~Falsy(miejsc)
  /\ Cardinality(LocalityRows) >= 2
  /\ ChosenRow(woj) = Nth(LocalityRows, 1)
  /\ Falsy(row[COL_POW]) /\ Falsy(df[COL_POW])
  /\ \E i \in LocalityRows : ~Falsy(TerytTuple(i)[2])

====
